---- MODULE Spec2Model ----
(***************************************************************************)
(* A model of backend/app.py of MediMind: the JSON event store kept in     *)
(* data.json (load_db / save_db / add_event), the resilient parser         *)
(* parse_json_safe, and the request handlers that read and write the       *)
(* store.  Every handler is cut into steps at the points where it touches  *)
(* the file or waits for the inference service, so that the steps of       *)
(* concurrent requests interleave as the threads of the server do.         *)
(***************************************************************************)
EXTENDS Integers, Sequences, FiniteSets, TLC

(***************************************************************************)
(* Bounds of the model.                                                    *)
(***************************************************************************)
\* Number of request threads that run concurrently.
NProcs == 2
\* No request that adds an event starts once the ids may reach beyond MaxId.
MaxId == 3
\* Longest store drawn for the checks of the history window.
MaxCtxLen == 11
\* Longest text, in tokens, handed to the parser on its own.
MaxParseLen == 6

Procs == 1..NProcs

(***************************************************************************)
(* Python strings are sequences of characters.                             *)
(***************************************************************************)
S_text == <<"t", "e", "x", "t">>
S_id == <<"i", "d">>
S_triage == <<"t", "r", "i", "a", "g", "e">>
S_transcription_en == <<"t", "r", "a", "n", "s", "c", "r", "i", "p", "t", "i", "o", "n", "_", "e", "n">>
S_symptoms == <<"s", "y", "m", "p", "t", "o", "m", "s">>
S_specific_suggestion == <<"s", "p", "e", "c", "i", "f", "i", "c", "_", "s", "u", "g", "g", "e", "s", "t", "i", "o", "n">>
S_specialist == <<"s", "p", "e", "c", "i", "a", "l", "i", "s", "t">>
S_reason == <<"r", "e", "a", "s", "o", "n">>
S_priority == <<"p", "r", "i", "o", "r", "i", "t", "y">>
S_low == <<"l", "o", "w">>
S_medium == <<"m", "e", "d", "i", "u", "m">>
S_high == <<"h", "i", "g", "h">>
S_urgent == <<"u", "r", "g", "e", "n", "t">>
S_General_Physician == <<"G", "e", "n", "e", "r", "a", "l", " ", "P", "h", "y", "s", "i", "c", "i", "a", "n">>
S_General_evaluation == <<"G", "e", "n", "e", "r", "a", "l", " ", "e", "v", "a", "l", "u", "a", "t", "i", "o", "n", " ", "r", "e", "c", "o", "m", "m", "e", "n", "d", "e", "d", ".">>
S_error == <<"e", "r", "r", "o", "r">>
S_ok == <<"o", "k">>
S_extraction == <<"e", "x", "t", "r", "a", "c", "t", "i", "o", "n">>
S_soap_data == <<"s", "o", "a", "p", "_", "d", "a", "t", "a">>
S_events == <<"e", "v", "e", "n", "t", "s">>
S_type == <<"t", "y", "p", "e">>
S_timestamp == <<"t", "i", "m", "e", "s", "t", "a", "m", "p">>
S_extra == <<"e", "x", "t", "r", "a">>
S_history == <<"h", "i", "s", "t", "o", "r", "y">>
S_id_required == <<"i", "d", " ", "r", "e", "q", "u", "i", "r", "e", "d">>
S_Text_too_short == <<"T", "e", "x", "t", " ", "t", "o", "o", " ", "s", "h", "o", "r", "t">>
S_AI_processing_failed == <<"A", "I", " ", "p", "r", "o", "c", "e", "s", "s", "i", "n", "g", " ", "f", "a", "i", "l", "e", "d">>
S_SOAP_generation_failed == <<"S", "O", "A", "P", " ", "g", "e", "n", "e", "r", "a", "t", "i", "o", "n", " ", "f", "a", "i", "l", "e", "d">>
S_no_text == <<"n", "o", " ", "t", "e", "x", "t">>
S_patient_summary == <<"p", "a", "t", "i", "e", "n", "t", "_", "s", "u", "m", "m", "a", "r", "y">>
S_time == <<"t", "i", "m", "e">>
S_symptom == <<"s", "y", "m", "p", "t", "o", "m">>
S_visual_observation == <<"v", "i", "s", "u", "a", "l", "_", "o", "b", "s", "e", "r", "v", "a", "t", "i", "o", "n">>
S_Image_unavailable == <<"I", "m", "a", "g", "e", " ", "a", "n", "a", "l", "y", "s", "i", "s", " ", "i", "s", " ", "c", "u", "r", "r", "e", "n", "t", "l", "y", " ", "u", "n", "a", "v", "a", "i", "l", "a", "b", "l", "e", ".">>
S_Visual_disabled == <<"V", "i", "s", "u", "a", "l", " ", "a", "n", "a", "l", "y", "s", "i", "s", " ", "d", "i", "s", "a", "b", "l", "e", "d", ".">>

(***************************************************************************)
(* Python / JSON values: a kind and a payload.                             *)
(***************************************************************************)
None == [k |-> "none", v |-> <<>>]
JNum(n) == [k |-> "num", v |-> n]
JStr(s) == [k |-> "str", v |-> s]
JList(l) == [k |-> "list", v |-> l]
JObj(f) == [k |-> "obj", v |-> f]
JTrue == [k |-> "bool", v |-> TRUE]
EmptyDict == JObj([x \in {} |-> None])

\* Python truthiness, as `or` and `not` use it.
Truthy(x) ==
    CASE x.k = "none" -> FALSE
      [] x.k = "num" -> x.v # 0
      [] x.k = "str" -> Len(x.v) > 0
      [] x.k = "list" -> Len(x.v) > 0
      [] x.k = "obj" -> DOMAIN x.v # {}
      [] OTHER -> TRUE

\* a or b
PyOr(a, b) == IF Truthy(a) THEN a ELSE b

\* dict.get(key, default)
DictGet(d, key, default) == IF key \in DOMAIN d.v THEN d.v[key] ELSE default

\* d[key] raises TypeError on a value that cannot be subscripted by a string
\* and KeyError on a dict without the key.
SubscriptRaises(d, key) == IF d.k # "obj" THEN TRUE ELSE key \notin DOMAIN d.v

(***************************************************************************)
(* Text handed to the parser: a sequence of lexical tokens.  A token is a  *)
(* punctuation mark, a number literal, a string literal with its content,  *)
(* or a word of prose that is no JSON.                                     *)
(***************************************************************************)
Tok(c) == [c |-> c, v |-> <<>>]
NumTok(n) == [c |-> "num", v |-> <<n>>]
StrTok(s) == [c |-> "str", v |-> s]
LBrace == Tok("{")
RBrace == Tok("}")
LBrack == Tok("[")
RBrack == Tok("]")
Colon == Tok(":")
Comma == Tok(",")
Word == Tok("w")
NullTok == Tok("null")

Ok(val, next) == [ok |-> TRUE, val |-> val, next |-> next]
Bad == [ok |-> FALSE, val |-> None, next |-> 0]

RECURSIVE ParseValue(_, _)
RECURSIVE ParseElems(_, _, _)
RECURSIVE ParseMembers(_, _, _)

\* One JSON value starting at token i: the value and the position after it.
ParseValue(s, i) ==
    IF i > Len(s) THEN Bad
    ELSE CASE s[i].c = "num" -> Ok(JNum(s[i].v[1]), i + 1)
           [] s[i].c = "str" -> Ok(JStr(s[i].v), i + 1)
           [] s[i].c = "null" -> Ok(None, i + 1)
           [] s[i].c = "[" ->
                IF i + 1 <= Len(s) /\ s[i + 1].c = "]"
                THEN Ok(JList(<<>>), i + 2)
                ELSE ParseElems(s, i + 1, <<>>)
           [] s[i].c = "{" ->
                IF i + 1 <= Len(s) /\ s[i + 1].c = "}"
                THEN Ok(EmptyDict, i + 2)
                ELSE ParseMembers(s, i + 1, [x \in {} |-> None])
           [] OTHER -> Bad

ParseElems(s, i, acc) ==
    LET r == ParseValue(s, i) IN
    IF ~r.ok \/ r.next > Len(s) THEN Bad
    ELSE IF s[r.next].c = "," THEN ParseElems(s, r.next + 1, Append(acc, r.val))
    ELSE IF s[r.next].c = "]" THEN Ok(JList(Append(acc, r.val)), r.next + 1)
    ELSE Bad

\* A repeated key keeps its last value, as a Python dict does.
ParseMembers(s, i, acc) ==
    IF i + 1 > Len(s) \/ s[i].c # "str" \/ s[i + 1].c # ":" THEN Bad
    ELSE LET r == ParseValue(s, i + 2)
             key == s[i].v
             acc2 == [x \in DOMAIN acc \cup {key} |-> IF x = key THEN r.val ELSE acc[x]]
         IN IF ~r.ok \/ r.next > Len(s) THEN Bad
            ELSE IF s[r.next].c = "," THEN ParseMembers(s, r.next + 1, acc2)
            ELSE IF s[r.next].c = "}" THEN Ok(JObj(acc2), r.next + 1)
            ELSE Bad

\* json.loads(text): the whole text is one value, or the call raises.
JsonLoadsOk(s) == LET r == ParseValue(s, 1) IN r.ok /\ r.next = Len(s) + 1
JsonLoads(s) == ParseValue(s, 1).val

\* re.search(r"(\{[\s\S]*\})", text): from the first "{" to the last "}".
Braces(s, c) == {i \in 1..Len(s) : s[i].c = c}
Min(set) == CHOOSE x \in set : \A y \in set : x <= y
Max(set) == CHOOSE x \in set : \A y \in set : x >= y
ReSearchMatches(s) ==
    /\ Braces(s, "{") # {}
    /\ \E j \in Braces(s, "}") : j > Min(Braces(s, "{"))
ReSearchGroup(s) == SubSeq(s, Min(Braces(s, "{")), Max(Braces(s, "}")))

\* What a call gives: the value it returns, or an exception it raises.
Return(val) == [raised |-> FALSE, val |-> val]
Raise == [raised |-> TRUE, val |-> None]

\* The parser without the try of lines 75-78 around the second json.loads.
parse_json_safe_call_bare(content) ==
    IF JsonLoadsOk(content) THEN Return(JsonLoads(content))
    ELSE IF ~ReSearchMatches(content) THEN Return(None)
    ELSE IF JsonLoadsOk(ReSearchGroup(content)) THEN Return(JsonLoads(ReSearchGroup(content)))
    ELSE Raise

\* The parser without the search of lines 73-78.
parse_json_safe_call_strict(content) ==
    IF JsonLoadsOk(content) THEN Return(JsonLoads(content)) ELSE Return(None)

\* A call parse_json_safe(text), text a str: both json.loads are inside a try
\* whose except clause lets the call go on to the return None of line 79.
parse_json_safe_call(content) ==
    IF JsonLoadsOk(content) THEN Return(JsonLoads(content))
    ELSE IF ~ReSearchMatches(content) THEN Return(None)
    ELSE IF JsonLoadsOk(ReSearchGroup(content)) THEN Return(JsonLoads(ReSearchGroup(content)))
    ELSE Return(None)

\* The value of parse_json_safe(text) in the handlers, where the text is the
\* content of an answer.
parse_json_safe(content) == parse_json_safe_call(content).val

(***************************************************************************)
(* The state.                                                              *)
(***************************************************************************)
VARIABLES
    file_exists,  \* whether data.json exists
    store,        \* the "events" list of data.json (empty while it does not exist)
    pc,           \* where each request thread stands
    frame,        \* the local variables of the handler each thread runs
    response,     \* the response of a finished request
    raced,        \* history: another thread saved the file between the load
                  \* and the save of the db this thread holds
    assigned      \* history: the ids of the entries add_event has saved

vars == <<file_exists, store, pc, frame, response, raced, assigned>>

NoEntry == [id |-> 0, type |-> <<>>, text |-> None, timestamp |-> 0, extra |-> None]
NoResponse == [code |-> 0, body |-> None]

\* The request a thread serves and the locals of its handler: route (the path
\* of the request), payload (its JSON body), text, extract_resp and triage_resp
\* (the content of the two answers), extraction, history_context and triage of
\* process_text, db (the "events" of the db that add_event, delete_event or
\* generate_soap has loaded), entry of add_event and resp (the content of the
\* answer) of generate_soap.
NoFrame ==
    [route |-> "", payload |-> None, text |-> <<>>, extract_resp |-> <<>>,
     extraction |-> None, db |-> <<>>, history_context |-> <<>>, triage_resp |-> <<>>,
     triage |-> None, entry |-> NoEntry, resp |-> <<>>]
NewFrame(route, body) == [NoFrame EXCEPT !.route = route, !.payload = body]

\* What datetime.utcnow() reads, in ticks of the clock.  No step of the program
\* branches on a timestamp, so one reading stands for all of them.
Times == {1}

Dict1(k1, v1) == JObj([x \in {k1} |-> v1])
Dict3(k1, v1, k2, v2, k3, v3) ==
    JObj([x \in {k1, k2, k3} |-> IF x = k1 THEN v1 ELSE IF x = k2 THEN v2 ELSE v3])

Resp(code, body) == [code |-> code, body |-> body]
ErrorBody(msg) == Dict1(S_error, JStr(msg))
OkBody == Dict1(S_ok, JTrue)
\* An exception no handler catches: the server's own Internal Server Error.
Unhandled == Resp(500, None)

(***************************************************************************)
(* Database helpers.                                                       *)
(***************************************************************************)
\* load_db(): the events of the file, or of {"events": []} when there is none.
load_db == IF file_exists THEN store ELSE <<>>

\* add_event numbering by the count of events instead of the last id.
NewIdCount(events) == Len(events) + 1

\* new_id of add_event.
NewId(events) == IF Len(events) > 0 THEN events[Len(events)].id + 1 ELSE 1

\* The entry add_event builds.
\* An entry that does not take the extra it is given.
NewEntryWithoutExtra(events, event_type, t, now, extra) ==
    [id |-> NewId(events), type |-> event_type, text |-> t,
     timestamp |-> now, extra |-> EmptyDict]
NewEntry(events, event_type, t, now, extra) ==
    [id |-> NewId(events), type |-> event_type, text |-> t,
     timestamp |-> now, extra |-> PyOr(extra, EmptyDict)]

\* delete_event keeping the events below the id instead of all the others.
RemoveIdAndLater(events, event_id) ==
    LET Keep(e) == IF event_id.k # "num" THEN TRUE ELSE e.id < event_id.v
    IN SelectSeq(events, Keep)

\* [e for e in db["events"] if e["id"] != event_id]
IdDiffers(e, event_id) == IF event_id.k # "num" THEN TRUE ELSE e.id # event_id.v
RemoveId(events, event_id) ==
    LET Keep(e) == IdDiffers(e, event_id) IN SelectSeq(events, Keep)

\* events[-n:]
LastN(events, n) ==
    SubSeq(events, IF Len(events) > n THEN Len(events) - n + 1 ELSE 1, Len(events))

EventJson(e) ==
    JObj([x \in {S_id, S_type, S_text, S_timestamp, S_extra} |->
            IF x = S_id THEN JNum(e.id)
            ELSE IF x = S_type THEN JStr(e.type)
            ELSE IF x = S_text THEN e.text
            ELSE IF x = S_timestamp THEN JNum(e.timestamp)
            ELSE e.extra])
DbJson(events) == Dict1(S_events, JList([i \in 1..Len(events) |-> EventJson(events[i])]))

(***************************************************************************)
(* process_text helpers.                                                   *)
(***************************************************************************)
HISTORY_WINDOW == 10
SOAP_WINDOW == 30
MIN_TEXT_LEN == 2

\* str.strip() over the characters of the model, of which " " is the whitespace.
RECURSIVE LStrip(_)
LStrip(s) == IF Len(s) > 0 /\ s[1] = " " THEN LStrip(Tail(s)) ELSE s
RECURSIVE RStrip(_)
RStrip(s) == IF Len(s) > 0 /\ s[Len(s)] = " " THEN RStrip(SubSeq(s, 1, Len(s) - 1)) ELSE s
\* A strip that leaves the whitespace at the end.
StripLeft(s) == LStrip(s)
Strip(s) == RStrip(LStrip(s))

\* A default extraction that does not carry the text.
DefaultExtractionBlank(t) ==
    Dict3(S_transcription_en, JStr(<<>>), S_symptoms, JList(<<>>), S_specific_suggestion, JStr(<<>>))
DefaultExtraction(t) ==
    Dict3(S_transcription_en, JStr(t), S_symptoms, JList(<<>>), S_specific_suggestion, JStr(<<>>))
DefaultTriage ==
    Dict3(S_specialist, JStr(S_General_Physician), S_reason, JStr(S_General_evaluation),
          S_priority, JStr(S_low))

\* The events the history context is built from.
IsSymptom(e) == e.type = S_symptom
\* A window that keeps the events of every type.
HistoryWindowUnfiltered(events) == LastN(events, HISTORY_WINDOW)
HistoryWindow(events) == SelectSeq(LastN(events, HISTORY_WINDOW), IsSymptom)
HistoryEntry(e) ==
    JObj([x \in {S_time, S_symptom} |-> IF x = S_time THEN JNum(e.timestamp) ELSE e.text])
HistoryContext(events) ==
    [i \in 1..Len(HistoryWindow(events)) |-> HistoryEntry(HistoryWindow(events)[i])]

(***************************************************************************)
(* What the clients send and what the inference service answers.           *)
(***************************************************************************)
RawTexts == {<<"a">>, <<" ", "a", " ">>, <<"a", "b">>, <<" ", "a", "b", " ">>}
RawTextsConc == {<<"a">>, <<" ", "a", "b", " ">>}
ProcessTextPayloads(texts) == {EmptyDict} \cup {Dict1(S_text, JStr(r)) : r \in texts}
AddHistoryPayloads == {EmptyDict, Dict1(S_text, JStr(<<>>)), Dict1(S_text, JStr(<<"h">>))}
DeletePayloads == {EmptyDict} \cup {Dict1(S_id, JNum(i)) : i \in 0..MaxId}

Member(key, val) == <<StrTok(key), Colon>> \o val
Garbage == <<Word, Word>>
ExtractionObject ==
    <<LBrace>> \o Member(S_transcription_en, <<StrTok(<<"c", "d">>)>>) \o <<Comma>>
        \o Member(S_symptoms, <<LBrack, StrTok(<<"c">>), RBrack>>) \o <<Comma>>
        \o Member(S_specific_suggestion, <<StrTok(<<"r">>)>>) \o <<RBrace>>
TriageObject ==
    <<LBrace>> \o Member(S_specialist, <<StrTok(<<"s">>)>>) \o <<Comma>>
        \o Member(S_reason, <<StrTok(<<"r">>)>>) \o <<Comma>>
        \o Member(S_priority, <<StrTok(S_high)>>) \o <<RBrace>>
NoTranscription == <<LBrace>> \o Member(S_symptoms, <<LBrack, RBrack>>) \o <<RBrace>>
UrgentObject == <<LBrace>> \o Member(S_priority, <<StrTok(S_urgent)>>) \o <<RBrace>>
\* Answers to the extraction prompt: prose, the object asked for wrapped in
\* prose, an object without transcription_en, a bare number.
ExtractReplies == {Garbage, <<Word>> \o ExtractionObject \o <<Word>>, NoTranscription, <<NumTok(1)>>}
\* Answers to the triage prompt: prose, the object asked for, an object that
\* is no triage record.
TriageReplies == {Garbage, TriageObject, UrgentObject}
\* The answers explored while the steps of two requests interleave.
ExtractRepliesConc == {Garbage, NoTranscription}
TriageRepliesConc == {Garbage}
SoapReplies ==
    { Garbage,
      <<Word, LBrace>> \o Member(S_patient_summary, <<StrTok(<<"p">>)>>) \o <<RBrace>> }

(***************************************************************************)
(* Steps common to the handlers.                                           *)
(***************************************************************************)
\* Thread p is free: it has served nothing yet, or has sent its response.
Free(p) == pc[p] \in {"idle", "done"}

\* Thread p goes on to position l with locals f.
Goto(p, l, f) ==
    /\ pc' = [pc EXCEPT ![p] = l]
    /\ frame' = [frame EXCEPT ![p] = f]
    /\ response' = [response EXCEPT ![p] = NoResponse]

\* The request of thread p ends with response r, its locals being f.
Reply(p, r, f) ==
    /\ pc' = [pc EXCEPT ![p] = "done"]
    /\ frame' = [frame EXCEPT ![p] = f]
    /\ response' = [response EXCEPT ![p] = r]

\* The other threads that will still call add_event, and the largest id in
\* the file or in the locals of another thread: together they bound the ids
\* an add_event of thread p can create.
WillAdd(p) ==
    {q \in Procs \ {p} : pc[q] \in {"pt_extract", "pt_load", "pt_triage", "pt_add_load", "ah_load"}}
LastId(events) == IF Len(events) > 0 THEN events[Len(events)].id ELSE 0
MaxKnownId(p) ==
    Max({LastId(store)} \cup {frame[q].entry.id : q \in Procs \ {p}}
            \cup {LastId(frame[q].db) : q \in Procs \ {p}})
RoomForAdd(p, maxid) == MaxKnownId(p) + Cardinality(WillAdd(p)) < maxid

\* load_db() raises: the file exists and cannot be read or decoded.
ReadFault == file_exists

\* save_db adding to the file what it does not hold yet instead of rewriting it.
save_db_merge(events) ==
    LET Missing(e) == \A i \in 1..Len(store) : store[i].id # e.id
    IN /\ store' = store \o SelectSeq(events, Missing)
       /\ file_exists' = TRUE

\* save_db(db): the whole file is rewritten.
save_db(events) ==
    /\ store' = events
    /\ file_exists' = TRUE

\* A step of thread p that writes nothing to the file.
ReadOnly(p) ==
    /\ UNCHANGED <<file_exists, store, assigned>>
    /\ raced' = [raced EXCEPT ![p] = FALSE]

\* Thread p saves: every other thread that holds a db it has loaded and not
\* yet saved has been overtaken.
Holding == {"ah_save", "pt_add_save", "de_save"}
Overtake(p) ==
    raced' = [q \in Procs |-> IF q # p /\ pc[q] \in Holding THEN TRUE ELSE raced[q]]

(***************************************************************************)
(* POST /add-history                                                       *)
(***************************************************************************)
\* Lines 249-253: the request arrives and is validated.
AddHistoryStart(p, body, maxid) ==
    /\ Free(p)
    /\ RoomForAdd(p, maxid)
    /\ IF ~Truthy(DictGet(body, S_text, None))
       THEN Reply(p, Resp(400, ErrorBody(S_no_text)), NewFrame("/add-history", body))
       ELSE Goto(p, "ah_load", NewFrame("/add-history", body))
    /\ ReadOnly(p)

\* add_event, lines 53-62: load the db and build the entry; a read fault of
\* load_db is caught by nothing.
AddHistoryLoad(p) ==
    /\ pc[p] = "ah_load"
    /\ \/ /\ ReadFault
          /\ Reply(p, Unhandled, frame[p])
       \/ \E now \in Times :
            Goto(p, "ah_save",
                 [frame[p] EXCEPT !.db = load_db,
                    !.entry = NewEntry(load_db, S_history,
                                       DictGet(frame[p].payload, S_text, None), now, None)])
    /\ ReadOnly(p)

\* add_event, lines 64-66, and the response of line 256.
AddHistorySave(p) ==
    /\ pc[p] = "ah_save"
    /\ save_db(Append(frame[p].db, frame[p].entry))
    /\ assigned' = assigned \cup {frame[p].entry.id}
    /\ Overtake(p)
    /\ Reply(p, Resp(200, OkBody), [frame[p] EXCEPT !.db = Append(@, frame[p].entry)])

(***************************************************************************)
(* POST /delete-event                                                      *)
(***************************************************************************)
\* Lines 98-102.
DeleteStart(p, body) ==
    /\ Free(p)
    /\ IF ~Truthy(DictGet(body, S_id, None))
       THEN Reply(p, Resp(400, ErrorBody(S_id_required)), NewFrame("/delete-event", body))
       ELSE Goto(p, "de_load", NewFrame("/delete-event", body))
    /\ ReadOnly(p)

\* Lines 104-105.
DeleteLoad(p) ==
    /\ pc[p] = "de_load"
    /\ \/ /\ ReadFault
          /\ Reply(p, Unhandled, frame[p])
       \/ Goto(p, "de_save",
               [frame[p] EXCEPT !.db = RemoveId(load_db, DictGet(frame[p].payload, S_id, None))])
    /\ ReadOnly(p)

\* Lines 106-108.
DeleteSave(p) ==
    /\ pc[p] = "de_save"
    /\ save_db(frame[p].db)
    /\ UNCHANGED assigned
    /\ Overtake(p)
    /\ Reply(p, Resp(200, OkBody), frame[p])

(***************************************************************************)
(* GET /history                                                            *)
(***************************************************************************)
GetHistory(p) ==
    /\ Free(p)
    /\ \/ /\ ReadFault
          /\ Reply(p, Unhandled, NewFrame("/history", None))
       \/ Reply(p, Resp(200, DbJson(load_db)), NewFrame("/history", None))
    /\ ReadOnly(p)

(***************************************************************************)
(* POST /process-image                                                     *)
(***************************************************************************)
\* Lines 204-212: the same answer to every request.
ProcessImage(p) ==
    /\ Free(p)
    /\ Reply(p, Resp(200, JObj([key \in {S_ok, S_triage} |->
                IF key = S_ok THEN JTrue
                ELSE JObj([x \in {S_specialist, S_priority, S_reason, S_visual_observation} |->
                        CASE x = S_specialist -> JStr(S_General_Physician)
                          [] x = S_priority -> JStr(S_medium)
                          [] x = S_reason -> JStr(S_Image_unavailable)
                          [] OTHER -> JStr(S_Visual_disabled)])])),
             NewFrame("/process-image", None))
    /\ ReadOnly(p)

(***************************************************************************)
(* POST /process-text                                                      *)
(***************************************************************************)
\* An except clause that answers with the default status.
ProcessingFailedAsOk == Resp(200, ErrorBody(S_AI_processing_failed))
\* The except clause of lines 197-199.
ProcessingFailed == Resp(500, ErrorBody(S_AI_processing_failed))

\* Lines 113-117.
ProcessTextStart(p, body, maxid) ==
    /\ Free(p)
    /\ RoomForAdd(p, maxid)
    /\ LET t == Strip(DictGet(body, S_text, JStr(<<>>)).v) IN
         IF Len(t) < MIN_TEXT_LEN
         THEN Reply(p, Resp(400, ErrorBody(S_Text_too_short)), NewFrame("/process-text", body))
         ELSE Goto(p, "pt_extract", [NewFrame("/process-text", body) EXCEPT !.text = t])
    /\ ReadOnly(p)

\* Lines 131-145: the extraction call raises, or answers with some text.
ProcessTextExtract(p, replies) ==
    /\ pc[p] = "pt_extract"
    /\ \/ Reply(p, ProcessingFailed, frame[p])
       \/ \E content \in replies :
            Goto(p, "pt_load",
                 [frame[p] EXCEPT !.extract_resp = content,
                    !.extraction =
                        PyOr(parse_json_safe(content), DefaultExtraction(frame[p].text))])
    /\ ReadOnly(p)

\* Lines 147-167: load the db, build the history context and the triage
\* prompt; extraction['transcription_en'] may raise.  The db of line 147 is
\* read by nothing once the history context is built: add_event loads its own.
ProcessTextLoad(p) ==
    /\ pc[p] = "pt_load"
    /\ \/ /\ ReadFault
          /\ Reply(p, ProcessingFailed, frame[p])
       \/ /\ SubscriptRaises(frame[p].extraction, S_transcription_en)
          /\ Reply(p, ProcessingFailed, frame[p])
       \/ /\ ~SubscriptRaises(frame[p].extraction, S_transcription_en)
          /\ Goto(p, "pt_triage",
                  [frame[p] EXCEPT !.db = load_db, !.history_context = HistoryContext(load_db)])
    /\ ReadOnly(p)

\* Lines 169-183: the triage call raises, or answers with some text.
ProcessTextTriage(p, replies) ==
    /\ pc[p] = "pt_triage"
    /\ \/ Reply(p, ProcessingFailed, frame[p])
       \/ \E content \in replies :
            Goto(p, "pt_add_load",
                 [frame[p] EXCEPT !.triage_resp = content,
                    !.triage = PyOr(parse_json_safe(content), DefaultTriage)])
    /\ ReadOnly(p)

\* An add_event that appends to the db of line 147 instead of loading its own.
ProcessTextAddLoadHeld(p) ==
    /\ pc[p] = "pt_add_load"
    /\ \E now \in Times :
            Goto(p, "pt_add_save",
                 [frame[p] EXCEPT
                    !.entry = NewEntry(frame[p].db, S_symptom,
                                       frame[p].extraction.v[S_transcription_en], now,
                                       Dict1(S_triage, frame[p].triage))])
    /\ ReadOnly(p)

\* Lines 185-189 and add_event, lines 53-62.
ProcessTextAddLoad(p) ==
    /\ pc[p] = "pt_add_load"
    /\ \/ /\ ReadFault
          /\ Reply(p, ProcessingFailed, frame[p])
       \/ \E now \in Times :
            Goto(p, "pt_add_save",
                 [frame[p] EXCEPT !.db = load_db,
                    !.entry = NewEntry(load_db, S_symptom,
                                       frame[p].extraction.v[S_transcription_en], now,
                                       Dict1(S_triage, frame[p].triage))])
    /\ ReadOnly(p)

\* add_event, lines 64-66, and the response of lines 191-195.
ProcessTextAddSave(p) ==
    /\ pc[p] = "pt_add_save"
    /\ save_db(Append(frame[p].db, frame[p].entry))
    /\ assigned' = assigned \cup {frame[p].entry.id}
    /\ Overtake(p)
    /\ Reply(p, Resp(200, Dict3(S_ok, JTrue, S_extraction, frame[p].extraction,
                                S_triage, frame[p].triage)),
             [frame[p] EXCEPT !.db = Append(@, frame[p].entry)])

(***************************************************************************)
(* POST /generate-soap                                                     *)
(***************************************************************************)
\* An except clause that answers with the default status.
SoapFailedAsOk == Resp(200, ErrorBody(S_SOAP_generation_failed))
\* The except clause of lines 242-244.
SoapFailed == Resp(500, ErrorBody(S_SOAP_generation_failed))

\* Line 218: the window of events the prompt embeds.
GenerateSoapLoad(p) ==
    /\ Free(p)
    /\ \/ /\ ReadFault
          /\ Reply(p, SoapFailed, NewFrame("/generate-soap", None))
       \/ Goto(p, "gs_call",
               [NewFrame("/generate-soap", None) EXCEPT !.db = LastN(load_db, SOAP_WINDOW)])
    /\ ReadOnly(p)

\* Lines 228-244: the call raises, or its answer parses to nothing, or to a report.
GenerateSoapCall(p) ==
    /\ pc[p] = "gs_call"
    /\ \/ Reply(p, SoapFailed, frame[p])
       \/ \E content \in SoapReplies :
            IF ~Truthy(parse_json_safe(content))
            THEN Reply(p, SoapFailed, [frame[p] EXCEPT !.resp = content])
            ELSE Reply(p, Resp(200, JObj([key \in {S_ok, S_soap_data} |->
                        IF key = S_ok THEN JTrue ELSE parse_json_safe(content)])),
                       [frame[p] EXCEPT !.resp = content])
    /\ ReadOnly(p)

(***************************************************************************)
(* The system.                                                             *)
(***************************************************************************)
Init ==
    /\ file_exists \in BOOLEAN
    /\ store = <<>>
    /\ pc = [p \in Procs |-> "idle"]
    /\ frame = [p \in Procs |-> NoFrame]
    /\ response = [p \in Procs |-> NoResponse]
    /\ raced = [p \in Procs |-> FALSE]
    /\ assigned = {}

\* A request arrives at thread p.
Start(p, maxid, texts) ==
    \/ \E body \in AddHistoryPayloads : AddHistoryStart(p, body, maxid)
    \/ \E body \in DeletePayloads : DeleteStart(p, body)
    \/ \E body \in ProcessTextPayloads(texts) : ProcessTextStart(p, body, maxid)
    \/ GetHistory(p)
    \/ ProcessImage(p)
    \/ GenerateSoapLoad(p)

\* A request in progress takes its next step.
Step(p, extract_replies, triage_replies) ==
    \/ AddHistoryLoad(p)
    \/ AddHistorySave(p)
    \/ DeleteLoad(p)
    \/ DeleteSave(p)
    \/ ProcessTextExtract(p, extract_replies)
    \/ ProcessTextLoad(p)
    \/ ProcessTextTriage(p, triage_replies)
    \/ ProcessTextAddLoad(p)
    \/ ProcessTextAddSave(p)
    \/ GenerateSoapCall(p)

\* The threads of the server, their steps interleaved.
Next ==
    \E p \in Procs : Start(p, MaxId, RawTextsConc) \/ Step(p, ExtractRepliesConc, TriageRepliesConc)
Spec == Init /\ [][Next]_vars

\* Requests one at a time: one thread serves them one after the other.
NextSeq == Start(1, MaxId, RawTexts) \/ Step(1, ExtractReplies, TriageReplies)
SpecSeq == Init /\ [][NextSeq]_vars

(***************************************************************************)
(* The history window of /process-text on long stores: the store starts as *)
(* any store that MaxCtxLen requests answered by prose leave behind, and   *)
(* one thread serves /process-text requests.                               *)
(***************************************************************************)
CtxEvent(i, event_type) ==
    IF event_type = S_symptom
    THEN [id |-> i, type |-> S_symptom, text |-> JStr(<<"a", "b">>), timestamp |-> i,
          extra |-> Dict1(S_triage, DefaultTriage)]
    ELSE [id |-> i, type |-> S_history, text |-> JStr(<<"h">>), timestamp |-> i,
          extra |-> EmptyDict]
CtxStores ==
    UNION {{[i \in 1..n |-> CtxEvent(i, types[i])] : types \in [1..n -> {S_symptom, S_history}]} :
             n \in 0..MaxCtxLen}

InitCtx ==
    /\ file_exists = TRUE
    /\ store \in CtxStores
    /\ pc = [p \in Procs |-> "idle"]
    /\ frame = [p \in Procs |-> NoFrame]
    /\ response = [p \in Procs |-> NoResponse]
    /\ raced = [p \in Procs |-> FALSE]
    /\ assigned = {store[i].id : i \in 1..Len(store)}

NextCtx ==
    \/ \E body \in ProcessTextPayloads(RawTextsConc) : ProcessTextStart(1, body, MaxCtxLen + 1)
    \/ ProcessTextExtract(1, ExtractRepliesConc)
    \/ ProcessTextLoad(1)
    \/ ProcessTextTriage(1, TriageRepliesConc)
    \/ ProcessTextAddLoad(1)
    \/ ProcessTextAddSave(1)
SpecCtx == InitCtx /\ [][NextCtx]_vars

(***************************************************************************)
(* Appends during a triage call: thread 1 serves /process-text requests,   *)
(* and thread 2 serves /add-history and /process-text requests only while  *)
(* thread 1 waits for the answer of its triage call, which comes when      *)
(* thread 2 has sent its response.                                         *)
(***************************************************************************)
NextTriage ==
    \/ \E body \in ProcessTextPayloads(RawTextsConc) : ProcessTextStart(1, body, MaxId)
    \/ ProcessTextExtract(1, ExtractRepliesConc)
    \/ ProcessTextLoad(1)
    \/ Free(2) /\ ProcessTextTriage(1, TriageRepliesConc)
    \/ ProcessTextAddLoad(1)
    \/ ProcessTextAddSave(1)
    \/ /\ pc[1] = "pt_triage"
       /\ \/ \E body \in AddHistoryPayloads : AddHistoryStart(2, body, MaxId)
          \/ AddHistoryLoad(2)
          \/ AddHistorySave(2)
          \/ \E body \in ProcessTextPayloads(RawTextsConc) : ProcessTextStart(2, body, MaxId)
          \/ ProcessTextExtract(2, ExtractRepliesConc)
          \/ ProcessTextLoad(2)
          \/ ProcessTextTriage(2, TriageRepliesConc)
          \/ ProcessTextAddLoad(2)
          \/ ProcessTextAddSave(2)
SpecTriage == Init /\ [][NextTriage]_vars

(***************************************************************************)
(* The parser on its own: thread 1 calls parse_json_safe on any text of up *)
(* to MaxParseLen tokens; frame[1].resp is the text and response[1] what   *)
(* the call gives.                                                         *)
(***************************************************************************)
ParseAlphabet == {Word, LBrace, RBrace, StrTok(<<"k">>), Colon}
ParserInputs == UNION {[1..n -> ParseAlphabet] : n \in 0..MaxParseLen}

InitParse ==
    /\ file_exists = FALSE
    /\ store = <<>>
    /\ pc = [p \in Procs |-> IF p = 1 THEN "parse" ELSE "idle"]
    /\ \E content \in ParserInputs :
            frame = [p \in Procs |->
                        IF p = 1 THEN [NoFrame EXCEPT !.route = "parse_json_safe", !.resp = content]
                        ELSE NoFrame]
    /\ response = [p \in Procs |-> NoResponse]
    /\ raced = [p \in Procs |-> FALSE]
    /\ assigned = {}

ParseCall(p) ==
    /\ pc[p] = "parse"
    /\ Reply(p, parse_json_safe_call(frame[p].resp), frame[p])
    /\ ReadOnly(p)

NextParse == ParseCall(1)
SpecParse == InitParse /\ [][NextParse]_vars

(***************************************************************************)
(* What the checks below read off the state.                               *)
(***************************************************************************)
Front(s) == SubSeq(s, 1, Len(s) - 1)
Range(s) == {s[i] : i \in 1..Len(s)}
Ids(events) == [i \in 1..Len(events) |-> events[i].id]
HasId(events, i) == \E k \in 1..Len(events) : events[k].id = i
\* Thread p has finished a request that called add_event and got its 200.
DoneAdd(p) == pc[p] = "done" /\ response[p].code = 200 /\ frame[p].entry.id # 0
\* Thread p has finished a /delete-event and got its 200.
DoneDelete(p) ==
    /\ pc[p] = "done"
    /\ frame[p].route = "/delete-event"
    /\ response[p] = Resp(200, OkBody)
DeleteId(p) == frame[p].payload.v[S_id].v
\* The step in which thread p saves the db of an add_event, of a delete_event.
AddSaveStep(p) == pc[p] \in {"ah_save", "pt_add_save"} /\ pc'[p] = "done"
DeleteSaveStep(p) == pc[p] = "de_save" /\ pc'[p] = "done"
\* The step in which a request of the given route arrives at thread p.
Arrives(p, route) == Free(p) /\ frame'[p].route = route
\* The text of the request of thread p, and a text without the spaces around it.
RequestText(p) == DictGet(frame[p].payload, S_text, JStr(<<>>)).v
NonSpace(s) == {i \in 1..Len(s) : s[i] # " "}
Trimmed(s) ==
    IF NonSpace(s) = {} THEN <<>>
    ELSE SubSeq(s, CHOOSE i \in NonSpace(s) : \A j \in NonSpace(s) : i <= j,
                   CHOOSE i \in NonSpace(s) : \A j \in NonSpace(s) : i >= j)
\* events without those of id i, in their order.
RECURSIVE Without(_, _)
Without(events, i) ==
    IF events = <<>> THEN <<>>
    ELSE IF Head(events).id = i THEN Without(Tail(events), i)
    ELSE <<Head(events)>> \o Without(Tail(events), i)

(***************************************************************************)
(* C1.  In every reachable state, whatever the interleaving of the load    *)
(* and save steps of /process-text, /add-history and /delete-event         *)
(* requests, the ids of the events of the store are pairwise distinct and  *)
(* strictly increasing in store order.                                     *)
(***************************************************************************)
StoreIdsIncreasing ==
    \A i, j \in 1..Len(store) : i < j => store[i].id < store[j].id

\* A store of two events and more, written by a thread that had been overtaken.
StoreAfterRace ==
    /\ Len(store) >= 2
    /\ \E p \in Procs : pc[p] = "done" /\ raced[p] /\ store = frame[p].db

(***************************************************************************)
(* C2.  Requests one at a time: an append on a non-empty store creates an  *)
(* event whose id is strictly greater than the id of every event of the    *)
(* store, and an append on an empty store creates an event of id 1.        *)
(***************************************************************************)
AppendIdAboveAll ==
    [][AddSaveStep(1) =>
        /\ store' = Append(store, frame[1].entry)
        /\ \A i \in 1..Len(store) : store[i].id < frame[1].entry.id
        /\ (store = <<>> => frame[1].entry.id = 1)]_vars

\* An append with id 3 on a store that a deletion has left with one event.
AppendAfterDelete ==
    /\ DoneAdd(1)
    /\ Len(store) = 2
    /\ store[2] = frame[1].entry
    /\ store[2].id = 3

(***************************************************************************)
(* C3.  Requests one at a time: a /delete-event with id i is accepted and  *)
(* answers 200; it leaves a store with no event of id i and with every     *)
(* other event unchanged and in its order; when no event has id i the      *)
(* store is unchanged.                                                     *)
(***************************************************************************)
DeleteEffect ==
    DeleteSaveStep(1) =>
        /\ ~HasId(store', DeleteId(1))
        /\ store' = Without(store, DeleteId(1))
        /\ (~HasId(store, DeleteId(1)) => store' = store)
        /\ response'[1] = Resp(200, OkBody)
DeleteAccepted(ids) ==
    (Arrives(1, "/delete-event") /\ S_id \in DOMAIN frame'[1].payload.v
        /\ frame'[1].payload.v[S_id].v \in ids) => pc'[1] = "de_load"

DeleteRemovesOnlyThatId == [][DeleteAccepted(0..MaxId) /\ DeleteEffect]_vars

\* The same of the ids that add_event gives, which start at 1.
DeleteRemovesOnlyThatPositiveId == [][DeleteAccepted(1..MaxId) /\ DeleteEffect]_vars

\* The event of id 2 deleted from between those of ids 1 and 3.
DeletedFromTheMiddle ==
    /\ DoneDelete(1)
    /\ DeleteId(1) = 2
    /\ Ids(store) = <<1, 3>>

(***************************************************************************)
(* C4.  Two concurrent appends can load the same store and each save a     *)
(* snapshot without the other's event: when a thread saves its append      *)
(* while another thread has finished, with its 200, an append that had     *)
(* loaded the same events, the store then holds the saver's new event and  *)
(* no longer the other's.                                                  *)
(***************************************************************************)
LostUpdate ==
    [][\A p, q \in Procs :
        (p # q /\ AddSaveStep(p) /\ DoneAdd(q) /\ Front(frame[q].db) = frame[p].db) =>
            /\ Len(store') = Len(frame[p].db) + 1
            /\ store'[Len(store')] = frame[p].entry
            /\ (frame[q].entry # frame[p].entry => frame[q].entry \notin Range(store'))]_vars

\* Both appends have got their 200 and the store holds one of the two events.
LostUpdateReached ==
    \E p, q \in Procs :
        /\ p # q /\ DoneAdd(p) /\ DoneAdd(q)
        /\ raced[p]
        /\ Front(frame[p].db) = Front(frame[q].db)
        /\ store = frame[p].db
        /\ frame[p].entry \in Range(store)
        /\ frame[q].entry \notin Range(store)

(***************************************************************************)
(* C5.  A concurrent append and /delete-event can race.  When a thread     *)
(* saves an append whose db holds the event another thread has deleted     *)
(* with a 200, the store holds that event again; when a thread saves a     *)
(* deletion whose db lacks the event another thread has appended with a    *)
(* 200, the store no longer holds the appended event.                      *)
(***************************************************************************)
AppendDeleteRace ==
    [][\A p, q \in Procs :
        /\ (p # q /\ AddSaveStep(p) /\ DoneDelete(q) /\ HasId(frame[p].db, DeleteId(q))) =>
                HasId(store', DeleteId(q))
        /\ (p # q /\ DeleteSaveStep(q) /\ DoneAdd(p) /\ frame[p].entry \notin Range(frame[q].db)
                /\ frame[p].entry.id # DeleteId(q)) =>
                frame[p].entry \notin Range(store')]_vars

\* Append and deletion have both got their 200, and the deleted event is in
\* the store, before the appended one.
DeletedEventIsBack ==
    \E p, q \in Procs :
        /\ p # q /\ DoneAdd(p) /\ DoneDelete(q)
        /\ raced[p]
        /\ store = frame[p].db
        /\ HasId(Front(store), DeleteId(q))
(***************************************************************************)
(* C6.  Requests one at a time: when the extraction call or the triage     *)
(* call of a /process-text raises, the answer is the status 500 with the   *)
(* body {"error": "AI processing failed"}, and no step of the request up   *)
(* to that answer changes the store: no event is appended.                 *)
(***************************************************************************)
InferenceFailureLeavesStore ==
    [][/\ (pc[1] \in {"pt_extract", "pt_triage"} /\ pc'[1] = "done") =>
            response'[1] = Resp(500, ErrorBody(S_AI_processing_failed))
       /\ (Arrives(1, "/process-text") \/ pc[1] \in {"pt_extract", "pt_load", "pt_triage"}) =>
            (store' = store /\ file_exists' = file_exists)]_vars

\* The triage call has raised, after the history context was built from a
\* store with a symptom event.
TriageCallRaised ==
    /\ pc[1] = "done"
    /\ frame[1].route = "/process-text"
    /\ response[1] = Resp(500, ErrorBody(S_AI_processing_failed))
    /\ Len(frame[1].history_context) >= 1
    /\ frame[1].triage.k = "none"
    /\ Len(store) >= 1

(***************************************************************************)
(* C7.  Requests one at a time: a /process-text whose text has fewer than  *)
(* 2 characters once the whitespace around it is removed is answered, in   *)
(* the step in which it arrives and so before any inference call, with the *)
(* status 400 and {"error": "Text too short"}; the store is unchanged.     *)
(***************************************************************************)
ShortTextRejected ==
    [][(Arrives(1, "/process-text") /\ Len(Trimmed(RequestText(1)')) < 2) =>
            /\ pc'[1] = "done"
            /\ response'[1] = Resp(400, ErrorBody(S_Text_too_short))
            /\ store' = store
            /\ file_exists' = file_exists]_vars

\* The text " a " rejected on a store that holds events.
ShortAfterTrimRejected ==
    /\ pc[1] = "done"
    /\ frame[1].route = "/process-text"
    /\ RequestText(1) = <<" ", "a", " ">>
    /\ response[1] = Resp(400, ErrorBody(S_Text_too_short))
    /\ Len(store) >= 1

(***************************************************************************)
(* C8.  Requests one at a time: a /process-text with valid text whose two  *)
(* inference answers both parse to None goes on with an extraction whose   *)
(* transcription_en is the expected text and a triage of priority "low",   *)
(* and its save answers 200 with that extraction and that triage and       *)
(* appends exactly one event, of type symptom, to the store.               *)
(***************************************************************************)
ExtractionFellBack(f) ==
    f.route = "/process-text" /\ f.extraction.k # "none" /\ parse_json_safe(f.extract_resp).k = "none"
TriageFellBack(f) == f.triage.k # "none" /\ parse_json_safe(f.triage_resp).k = "none"
FallbackResult(expected) ==
    /\ (pc[1] = "pt_load" /\ ExtractionFellBack(frame[1])) =>
            /\ frame[1].extraction.k = "obj"
            /\ S_transcription_en \in DOMAIN frame[1].extraction.v
            /\ frame[1].extraction.v[S_transcription_en] = JStr(expected)
    /\ (pc[1] = "pt_add_load" /\ TriageFellBack(frame[1])) =>
            frame[1].triage.v[S_priority] = JStr(S_low)
    /\ (pc[1] = "pt_add_save" /\ pc'[1] = "done"
            /\ ExtractionFellBack(frame[1]) /\ TriageFellBack(frame[1])) =>
            /\ response'[1].code = 200
            /\ response'[1].body.v[S_extraction].v[S_transcription_en] = JStr(expected)
            /\ response'[1].body.v[S_triage].v[S_priority] = JStr(S_low)
            /\ Len(store') = Len(store) + 1
            /\ Front(store') = store
            /\ store'[Len(store')].type = S_symptom

SymptomEvent(e) == e.type = S_symptom
Symptoms(events) == SelectSeq(events, SymptomEvent)
LastSymptoms(events, n) ==
    [i \in 1..(IF Len(Symptoms(events)) < n THEN Len(Symptoms(events)) ELSE n) |->
        Symptoms(events)[i + (IF Len(Symptoms(events)) < n THEN 0 ELSE Len(Symptoms(events)) - n)]]
ContextOf(events) ==
    [i \in 1..Len(events) |->
        JObj([x \in {S_time, S_symptom} |->
                IF x = S_time THEN JNum(events[i].timestamp) ELSE events[i].text])]

HistoryIsLastTenSymptoms ==
    pc[1] = "pt_triage" => frame[1].history_context = ContextOf(LastSymptoms(store, 10))

(***************************************************************************)
(* C10.  The history context a /process-text builds has at most 10         *)
(* entries, all of them made from the 10 most recent events of type        *)
(* symptom of the store and in the order of the store, and none of them    *)
(* made from an event of type history.                                     *)
(***************************************************************************)
RECURSIVE IsSubSeq(_, _)
IsSubSeq(a, b) ==
    IF a = <<>> THEN TRUE
    ELSE IF b = <<>> THEN FALSE
    ELSE IF Head(a) = Head(b) THEN IsSubSeq(Tail(a), Tail(b))
    ELSE IsSubSeq(a, Tail(b))

HistoryWithinLastTenSymptoms ==
    pc[1] = "pt_triage" =>
        /\ Len(frame[1].history_context) <= 10
        /\ IsSubSeq(frame[1].history_context, ContextOf(LastSymptoms(store, 10)))
        /\ \A i \in 1..Len(store) :
                store[i].type = S_history =>
                    ContextOf(<<store[i]>>)[1] \notin Range(frame[1].history_context)

\* A context that is not empty and is shorter than the last 10 symptom
\* events: history events have taken places of the window.
HistoryTookPlaces ==
    /\ pc[1] = "pt_triage"
    /\ Len(frame[1].history_context) >= 1
    /\ Len(frame[1].history_context) < Len(LastSymptoms(store, 10))
(***************************************************************************)
(* C11.  Requests one at a time: no step of a /generate-soap, whether it   *)
(* ends in success, on an answer that does not parse or on a call that     *)
(* raises, changes the store; and when the answer parses to None the       *)
(* request is answered with the status 500 and                             *)
(* {"error": "SOAP generation failed"}.                                    *)
(***************************************************************************)
SoapLeavesStore ==
    [][/\ (Arrives(1, "/generate-soap") \/ pc[1] = "gs_call") =>
            (store' = store /\ file_exists' = file_exists)
       /\ (pc[1] = "gs_call" /\ pc'[1] = "done" /\ frame'[1].resp # <<>>
                /\ parse_json_safe(frame'[1].resp).k = "none") =>
            response'[1] = Resp(500, ErrorBody(S_SOAP_generation_failed))]_vars

\* Prose for an answer, on a store that holds events: the 500.
SoapAnswerUnparsed ==
    /\ pc[1] = "done"
    /\ frame[1].route = "/generate-soap"
    /\ frame[1].resp # <<>>
    /\ parse_json_safe(frame[1].resp).k = "none"
    /\ response[1].code = 500
    /\ Len(store) >= 1
    /\ frame[1].db = store

(***************************************************************************)
(* C12.  Requests one at a time: a step that is not the save of a          *)
(* /delete-event leaves the store as it is or, when it is the save of an   *)
(* append, adds one event at its end and leaves the others as they are;    *)
(* the save of a /delete-event with id i leaves the events of other ids    *)
(* as they are and in their order.                                         *)
(***************************************************************************)
EventsStayUntilDeleted ==
    [][/\ ~DeleteSaveStep(1) =>
            \/ store' = store
            \/ AddSaveStep(1) /\ Len(store') = Len(store) + 1 /\ Front(store') = store
       /\ DeleteSaveStep(1) => store' = Without(store, DeleteId(1))]_vars

\* The events of ids 1 and 3 are what they were when they were appended,
\* after the deletion of the event of id 2 and a /generate-soap.
SurvivorsAfterDelete ==
    /\ pc[1] = "done"
    /\ frame[1].route = "/generate-soap"
    /\ Ids(store) = <<1, 3>>
    /\ store[1].type = S_history
    /\ store[2].type = S_symptom

(***************************************************************************)
(* C13.  For every text, a call of the parser returns and does not raise;  *)
(* what it returns is None or the decoded value of the whole text or of    *)
(* its part from the first "{" to the last "}"; and it returns None when   *)
(* the whole text does not decode and either the text has no such part or  *)
(* that part does not decode.                                              *)
(***************************************************************************)
Parsed(p) == pc[p] = "done" /\ frame[p].route = "parse_json_safe"
Opening(s) == {i \in 1..Len(s) : s[i] = LBrace}
Closing(s) == {i \in 1..Len(s) : s[i] = RBrace}
FirstOpening(s) == CHOOSE i \in Opening(s) : \A j \in Opening(s) : i <= j
LastClosing(s) == CHOOSE i \in Closing(s) : \A j \in Closing(s) : i >= j
HasBracePart(s) == Opening(s) # {} /\ Closing(s) # {} /\ FirstOpening(s) < LastClosing(s)
BracePart(s) == SubSeq(s, FirstOpening(s), LastClosing(s))

ParserNeverRaises ==
    Parsed(1) =>
        LET s == frame[1].resp
            r == response[1]
        IN /\ ~r.raised
           /\ \/ r.val.k = "none"
              \/ JsonLoadsOk(s) /\ r.val = JsonLoads(s)
              \/ HasBracePart(s) /\ JsonLoadsOk(BracePart(s)) /\ r.val = JsonLoads(BracePart(s))
           /\ (~JsonLoadsOk(s) /\ (~HasBracePart(s) \/ ~JsonLoadsOk(BracePart(s)))) =>
                    r.val.k = "none"

\* A text that does not decode and whose part between braces does not
\* decode either: the call has returned None.
ParsedBrokenObject ==
    /\ Parsed(1)
    /\ ~JsonLoadsOk(frame[1].resp)
    /\ HasBracePart(frame[1].resp)
    /\ ~JsonLoadsOk(BracePart(frame[1].resp))
    /\ ~response[1].raised
    /\ response[1].val.k = "none"

(***************************************************************************)
(* C14.  For every text: when the whole text decodes the parser returns    *)
(* the decoded value; and when the text does not decode and holds, among   *)
(* other tokens, one part that is a JSON object, the parser returns that   *)
(* object.                                                                 *)
(***************************************************************************)
IsObject(s) == JsonLoadsOk(s) /\ JsonLoads(s).k = "obj"
ObjectParts(s) ==
    {ij \in (1..Len(s)) \X (1..Len(s)) : ij[1] < ij[2] /\ IsObject(SubSeq(s, ij[1], ij[2]))}

ParserReturnsEmbeddedObject ==
    Parsed(1) =>
        LET s == frame[1].resp
            r == response[1]
        IN /\ JsonLoadsOk(s) => (~r.raised /\ r.val = JsonLoads(s))
           /\ \A ij \in ObjectParts(s) :
                (~JsonLoadsOk(s) /\ ObjectParts(s) = {ij}) =>
                    (~r.raised /\ r.val = JsonLoads(SubSeq(s, ij[1], ij[2])))

\* The same of the objects around which the text has no brace.
ParserReturnsObjectAmongWords ==
    Parsed(1) =>
        LET s == frame[1].resp
            r == response[1]
        IN /\ JsonLoadsOk(s) => (~r.raised /\ r.val = JsonLoads(s))
           /\ \A ij \in ObjectParts(s) :
                (/\ ~JsonLoadsOk(s)
                 /\ \A k \in 1..Len(s) :
                        (k < ij[1] \/ k > ij[2]) => s[k] \notin {LBrace, RBrace}) =>
                    (~r.raised /\ r.val = JsonLoads(SubSeq(s, ij[1], ij[2])))

\* The object {"k": "k"} returned from behind a word.
ParsedObjectAfterWord ==
    /\ Parsed(1)
    /\ frame[1].resp = <<Word, LBrace, StrTok(<<"k">>), Colon, StrTok(<<"k">>), RBrace>>
    /\ response[1] = Return(Dict1(<<"k">>, JStr(<<"k">>)))

(***************************************************************************)
(* C15.  Requests one at a time, data.json absent so that no read of it    *)
(* can fail: once the extraction call of a /process-text has answered,     *)
(* and whatever the two answers are, the request ends only with its save,  *)
(* which answers 200 with an extraction and a triage and appends exactly   *)
(* one event of type symptom; the 500 is given only when a call raises.    *)
(***************************************************************************)
AnswersAlwaysSucceed ==
    [][/\ (pc[1] \in {"pt_load", "pt_add_load"} /\ ~file_exists) => pc'[1] # "done"
       /\ (pc[1] = "pt_add_save" /\ pc'[1] = "done") =>
            /\ response'[1].code = 200
            /\ {S_extraction, S_triage} \subseteq DOMAIN response'[1].body.v
            /\ Len(store') = Len(store) + 1
            /\ Front(store') = store
            /\ store'[Len(store')].type = S_symptom]_vars

(***************************************************************************)
(* C16.  In every reachable state every event of type symptom of the store *)
(* has an extra.triage that is a record with a specialist, a reason and a  *)
(* priority, the priority one of "low", "medium" and "high".               *)
(***************************************************************************)
WellFormedTriage(t) ==
    /\ t.k = "obj"
    /\ {S_specialist, S_reason, S_priority} \subseteq DOMAIN t.v
    /\ t.v[S_priority] \in {JStr(S_low), JStr(S_medium), JStr(S_high)}

SymptomTriageWellFormed ==
    \A i \in 1..Len(store) :
        store[i].type = S_symptom =>
            /\ S_triage \in DOMAIN store[i].extra.v
            /\ WellFormedTriage(store[i].extra.v[S_triage])

(***************************************************************************)
(* C18.  Requests one at a time: a /process-text answers 200 only in its   *)
(* save step, and that step appends exactly one event, of type symptom,    *)
(* whose text is the transcription_en of the extraction of the answer and  *)
(* whose extra.triage is the triage of the answer; no other step of a      *)
(* /process-text, so none of a request answered 400 or 500, changes the    *)
(* store.                                                                  *)
(***************************************************************************)
SuccessAppendsTheAnswer ==
    [][/\ (pc[1] = "pt_add_save" /\ pc'[1] = "done") =>
            /\ response'[1].code = 200
            /\ Len(store') = Len(store) + 1
            /\ Front(store') = store
            /\ store'[Len(store')].type = S_symptom
            /\ store'[Len(store')].text = response'[1].body.v[S_extraction].v[S_transcription_en]
            /\ S_triage \in DOMAIN store'[Len(store')].extra.v
            /\ store'[Len(store')].extra.v[S_triage] = response'[1].body.v[S_triage]
       /\ (frame'[1].route = "/process-text" /\ pc'[1] = "done" /\ response'[1].code = 200) =>
            pc[1] = "pt_add_save"
       /\ (Arrives(1, "/process-text")
                \/ pc[1] \in {"pt_extract", "pt_load", "pt_triage", "pt_add_load"}) =>
            (store' = store /\ file_exists' = file_exists)]_vars

\* The 200 of a request whose two answers were the objects asked for, and
\* its event at the end of a store that held one.
SuccessWithBothObjects ==
    /\ pc[1] = "done"
    /\ frame[1].route = "/process-text"
    /\ response[1].code = 200
    /\ Len(store) >= 2
    /\ store[Len(store)].text = JStr(<<"c", "d">>)
    /\ store[Len(store)].extra.v[S_triage].v[S_priority] = JStr(S_high)

(***************************************************************************)
(* C19.  Requests one at a time: a read of data.json that fails during a   *)
(* /process-text or a /generate-soap is caught by nothing, so that the     *)
(* request ends with the unhandled failure and not with the 500 of the     *)
(* handler.  The steps that end a request at the load of add_event and at  *)
(* the load of generate_soap are those of a failed read.                   *)
(***************************************************************************)
ReadFaultUnhandled ==
    [][((pc[1] = "pt_add_load" \/ Arrives(1, "/generate-soap")) /\ pc'[1] = "done") =>
            response'[1] = Unhandled]_vars

(***************************************************************************)
(* C17.  Requests one at a time: the id of the entry an append saves       *)
(* differs from the id of every entry an earlier append has saved, also    *)
(* when events have been deleted in between.                               *)
(***************************************************************************)
NoIdAssignedTwice == [][AddSaveStep(1) => frame[1].entry.id \notin assigned]_vars

(***************************************************************************)
(* C20.  Thread 2 appends, load and save, only while thread 1 is in the    *)
(* triage call of a /process-text: the save of thread 1's append keeps     *)
(* every event of the store, adds its own at the end, and so leaves in the *)
(* store the event that thread 2 has appended.                             *)
(***************************************************************************)
AppendDuringTriageSurvives ==
    [][(pc[1] = "pt_add_save" /\ pc'[1] = "done") =>
            /\ Front(store') = store
            /\ store'[Len(store')] = frame[1].entry
            /\ DoneAdd(2) => frame[2].entry \in Range(store')]_vars

\* Thread 1 built its history context from a store without symptom events;
\* the symptom event thread 2 appended during the triage call and the event
\* of thread 1 are both in the store.
BothEventsInStore ==
    /\ pc[1] = "done" /\ response[1].code = 200
    /\ DoneAdd(2)
    /\ frame[1].history_context = <<>>
    /\ frame[2].entry.type = S_symptom
    /\ store = <<frame[2].entry, frame[1].entry>>
====
